---- MODULE Spec2Model ----
(***************************************************************************)
(* Model of btkbdd's keyb.c: the keyboard status (modifier mask and the    *)
(* six key slots), the HIDP command interpreter and the session loop that  *)
(* multiplexes the event device, the two host channels and the two         *)
(* listening sockets.                                                      *)
(***************************************************************************)
EXTENDS Integers, Sequences, FiniteSets, TLC

(***************************************************************************)
(* Bounds of the model.                                                    *)
(***************************************************************************)
\* Linux key codes 1..NumKeys are the non-modifier keys of the rollover runs.
NumKeys == 7
\* Non-modifier keys of the modifier runs.
NumModKeys == 2
\* Longest frame read from a host channel in the session runs.
MaxFrame == 4
\* Longest frame read from a host channel in the command runs.
MaxCmdFrame == 5

(***************************************************************************)
(* Constants of <linux/input.h> and <bluetooth/hidp.h> used by keyb.c.     *)
(***************************************************************************)
EV_SYN == 0
EV_KEY == 1
EV_LED == 17
LED_NUML == 0
LED_CAPSL == 1
LED_SCROLLL == 2
LED_COMPOSE == 3
LED_KANA == 4
KEY_LEFTCTRL == 29
KEY_LEFTSHIFT == 42
KEY_LEFTALT == 56
KEY_RIGHTCTRL == 97
KEY_RIGHTSHIFT == 54
KEY_RIGHTALT == 100
HIDP_TRANS_HANDSHAKE == 0
HIDP_TRANS_SET_PROTOCOL == 112
HIDP_TRANS_DATA == 160
HIDP_HEADER_TRANS_MASK == 240
HIDP_HSHK_SUCCESSFUL == 0
HIDP_HSHK_ERR_UNKNOWN == 14
HIDP_DATA_RTYPE_INPUT == 1
L2CAP_PSM_HIDP_CTRL == 17
L2CAP_PSM_HIDP_INTR == 19

(***************************************************************************)
(* Constants of the repository's hid.h (modifier and LED bits of the HID   *)
(* boot keyboard report) and its linux2hid.h translation table.            *)
(***************************************************************************)
HIDP_LEFTCTRL == 1
HIDP_LEFTSHIFT == 2
HIDP_LEFTALT == 4
HIDP_RIGHTCTRL == 16
HIDP_RIGHTSHIFT == 32
HIDP_RIGHTALT == 64
HIDP_NUML == 1
HIDP_CAPSL == 2
HIDP_SCROLLL == 4
HIDP_COMPOSE == 8
HIDP_KANA == 16

\* linux2hid[0..15]: KEY_RESERVED, KEY_ESC, KEY_1 .. KEY_0, KEY_MINUS,
\* KEY_EQUAL, KEY_BACKSPACE, KEY_TAB as HID usage codes; 0 is "no usage".
linux2hidTable == <<0, 41, 30, 31, 32, 33, 34, 35, 36, 37, 38, 39, 45, 46, 42, 43>>

linux2hid(code) == IF code + 1 <= Len(linux2hidTable) THEN linux2hidTable[code + 1] ELSE 0

BDADDR_ANY == "any"

(***************************************************************************)
(* uint8_t arithmetic.                                                     *)
(***************************************************************************)
Bit(x, k) == (x \div (2 ^ k)) % 2

RECURSIVE BitOr(_, _, _)
BitOr(a, b, k) ==
    IF k < 0 THEN 0
    ELSE (IF Bit(a, k) = 1 \/ Bit(b, k) = 1 THEN 2 ^ k ELSE 0) + BitOr(a, b, k - 1)

RECURSIVE BitAndNot(_, _, _)
BitAndNot(a, b, k) ==
    IF k < 0 THEN 0
    ELSE (IF Bit(a, k) = 1 /\ Bit(b, k) = 0 THEN 2 ^ k ELSE 0) + BitAndNot(a, b, k - 1)

RECURSIVE BitAnd(_, _, _)
BitAnd(a, b, k) ==
    IF k < 0 THEN 0
    ELSE (IF Bit(a, k) = 1 /\ Bit(b, k) = 1 THEN 2 ^ k ELSE 0) + BitAnd(a, b, k - 1)

\* a | b, a & ~b and a & b stored back into a uint8_t.
OrU8(a, b) == BitOr(a, b, 7)
AndNotU8(a, b) == BitAndNot(a, b, 7)
AndU8(a, b) == BitAnd(a, b, 7)

\* !!x
Truth(x) == IF x # 0 THEN 1 ELSE 0

(***************************************************************************)
(* The program's state.                                                    *)
(***************************************************************************)
VARIABLES
    pc,        \* position in session: start, opened, loop, exit, returned
    status,    \* struct status: leds and the key report
    input,     \* event device descriptor
    control,   \* host control channel, -1 when absent
    intr,      \* host interrupt channel, -1 when absent
    scontrol,  \* listening control socket, -1 when retired
    sintr,     \* listening interrupt socket, -1 when retired
    tgt,       \* *tgt, the target address (l2cap_accept stores the peer in it)
    target,    \* *tgt as it was when session was entered
    revents,   \* indices k of pf[] whose pf[k].revents is still set
    closed,    \* closed[d]: number of close() calls on descriptor d; Len = descriptors opened
    ret,       \* session's return value, -1 until it returns
    io,        \* system calls made by the last step, in order
    event,     \* the struct input_event last read by input_event
    before,    \* status.report as it was when the last step began
    frame      \* the bytes last read by btooth_command (buf[0..size-1]) and size

vars == <<pc, status, input, control, intr, scontrol, sintr, tgt, target,
          revents, closed, ret, io, event, before, frame>>

(***************************************************************************)
(* System calls as they appear in io.                                      *)
(***************************************************************************)
\* res is "ok" or "fail", or "unchecked" where the code ignores the result.
Call(op, fd, data, res) == [op |-> op, fd |-> fd, data |-> data, res |-> res]

\* A write whose result the code does not look at.
Write(fd, data) == Call("write", fd, data, "unchecked")

Result(ok) == IF ok THEN "ok" ELSE "fail"

\* The write of one struct input_event {type, code, value}.
WriteEvent(fd, type, code, value) == Write(fd, <<type, code, value>>)

\* A variant that writes only the LEDs that differ from status.leds.
set_leds_changed(inp, leds) ==
    LET led(code, bit) ==
            IF Truth(AndU8(leds, bit)) # Truth(AndU8(status.leds, bit))
            THEN <<WriteEvent(inp, EV_LED, code, Truth(AndU8(leds, bit)))>>
            ELSE <<>>
    IN  led(LED_NUML, HIDP_NUML) \o led(LED_CAPSL, HIDP_CAPSL)
        \o led(LED_SCROLLL, HIDP_SCROLLL) \o led(LED_COMPOSE, HIDP_COMPOSE)
        \o led(LED_KANA, HIDP_KANA)

(***************************************************************************)
(* set_leds: five EV_LED writes, whatever was written before.              *)
(***************************************************************************)
set_leds(inp, leds) ==
    << WriteEvent(inp, EV_LED, LED_NUML, Truth(AndU8(leds, HIDP_NUML))),
       WriteEvent(inp, EV_LED, LED_CAPSL, Truth(AndU8(leds, HIDP_CAPSL))),
       WriteEvent(inp, EV_LED, LED_SCROLLL, Truth(AndU8(leds, HIDP_SCROLLL))),
       WriteEvent(inp, EV_LED, LED_COMPOSE, Truth(AndU8(leds, HIDP_COMPOSE))),
       WriteEvent(inp, EV_LED, LED_KANA, Truth(AndU8(leds, HIDP_KANA))) >>

\* A variant that sends the two frames the other way round.
hello_swapped(ctl) ==
    << Write(ctl, <<161, 19, 2>>), Write(ctl, <<161, 19, 3>>), Call("sleep", -1, <<1>>, "unchecked") >>

(***************************************************************************)
(* hello: the two greeting frames on the control channel, then sleep(1).   *)
(***************************************************************************)
hello(ctl) ==
    << Write(ctl, <<161, 19, 3>>), Write(ctl, <<161, 19, 2>>), Call("sleep", -1, <<1>>, "unchecked") >>

(***************************************************************************)
(* input_event, lines 160-202: the update of the key report.               *)
(***************************************************************************)
\* switch (event.code): the modifier bit of a key, 0 for any other key.
ModifierOf(code) ==
    CASE code = KEY_LEFTCTRL -> HIDP_LEFTCTRL
      [] code = KEY_LEFTSHIFT -> HIDP_LEFTSHIFT
      [] code = KEY_LEFTALT -> HIDP_LEFTALT
      [] code = KEY_RIGHTCTRL -> HIDP_RIGHTCTRL
      [] code = KEY_RIGHTSHIFT -> HIDP_RIGHTSHIFT
      [] code = KEY_RIGHTALT -> HIDP_RIGHTALT
      [] OTHER -> 0

\* A variant whose release keeps the bit and clears the others (mods &= mod).
ApplyModifier_and(mods, mod, value) ==
    IF value # 0 THEN OrU8(mods, mod) ELSE AndU8(mods, mod)

\* if (event.value) mods |= mod; else mods &= ~mod;
ApplyModifier(mods, mod, value) ==
    IF value # 0 THEN OrU8(mods, mod) ELSE AndNotU8(mods, mod)

\* A variant that leaves the key where it is held.
RemoveKey_never(key, i, code) == key

\* key[] is indexed 0..5 in the code and 1..6 here: slot i is key[i + 1].
\* "Remove key if already enabled"
RemoveKey(key, i, code) ==
    IF key[i + 1] = code THEN [key EXCEPT ![i + 1] = 0] ELSE key

\* A variant that takes the key only behind the last held one.
AddsKey_AtEnd(key, i, value) ==
    value # 0 /\ key[i + 1] = 0 /\ (i = 5 \/ key[i + 2] = 0)

\* "Add key if it was pushed": whether the slot takes the key (and the loop breaks).
AddsKey(key, i, value) == value # 0 /\ key[i + 1] = 0

\* A variant that never shifts.
ShiftRest_none(key, i) == key

\* A variant whose bound is one short: the last slot is never pulled forward.
ShiftRest_short(key, i) ==
    IF i < 4 /\ key[i + 1] = 0
    THEN [key EXCEPT ![i + 1] = key[i + 2], ![i + 2] = 0]
    ELSE key

\* "Shift the rest"
ShiftRest(key, i) ==
    IF i < 5 /\ key[i + 1] = 0
    THEN [key EXCEPT ![i + 1] = key[i + 2], ![i + 2] = 0]
    ELSE key

\* for (i = 0; i < 6; i++) { ... }
RECURSIVE UpdateKeys(_, _, _, _)
\* A variant that puts a key pressed on a full buffer in the last slot.
UpdateKeys_overwrite(key, code, value, i) ==
    IF i >= 6
    THEN IF value # 0 /\ \A j \in 1..6 : key[j] # code
         THEN [key EXCEPT ![6] = code]
         ELSE key
    ELSE LET removed == RemoveKey(key, i, code)
         IN  IF AddsKey(removed, i, value)
             THEN [removed EXCEPT ![i + 1] = code]
             ELSE UpdateKeys(ShiftRest(removed, i), code, value, i + 1)

UpdateKeys(key, code, value, i) ==
    IF i >= 6 THEN key
    ELSE LET removed == RemoveKey(key, i, code)
         IN  IF AddsKey(removed, i, value)
             THEN [removed EXCEPT ![i + 1] = code]
             ELSE UpdateKeys(ShiftRest(removed, i), code, value, i + 1)

\* The report after a key event with event.code < 256.
UpdateReport(report, code, value) ==
    IF ModifierOf(code) # 0
    THEN [report EXCEPT !.mods = ApplyModifier(report.mods, ModifierOf(code), value)]
    ELSE [report EXCEPT !.key = UpdateKeys(report.key, linux2hid(code), value, 0)]

\* The bytes of struct key_report as written to the host.
ReportBytes(report) ==
    <<report.type, report.report, report.mods, report.reserved>> \o report.key

\* A variant that keeps the report for later when there is no interrupt channel.
input_event_offline(st, inp, ctl, itr, rd, ev, wr) ==
    LET rdcall == Call("read", inp, <<>>, rd)
    IN  IF rd # "ok" THEN [status |-> st, io |-> <<rdcall>>, rc |-> -1]
        ELSE IF ev.type # EV_KEY THEN [status |-> st, io |-> <<rdcall>>, rc |-> 0]
        ELSE IF ev.code >= 256 THEN [status |-> st, io |-> <<rdcall>>, rc |-> 0]
        ELSE LET rep == UpdateReport(st.report, ev.code, ev.value)
             IN  IF itr = -1
                 THEN [status |-> [st EXCEPT !.report = rep], io |-> <<rdcall>>, rc |-> 0]
                 ELSE [status |-> [st EXCEPT !.report = rep],
                       io |-> <<rdcall, Call("write", itr, ReportBytes(rep), Result(wr))>>,
                       rc |-> IF wr THEN 0 ELSE -1]

\* A variant that sends the report only when the event has changed it.
input_event_changed(st, inp, ctl, itr, rd, ev, wr) ==
    LET rdcall == Call("read", inp, <<>>, rd)
    IN  IF rd # "ok" THEN [status |-> st, io |-> <<rdcall>>, rc |-> -1]
        ELSE IF ev.type # EV_KEY THEN [status |-> st, io |-> <<rdcall>>, rc |-> 0]
        ELSE IF ev.code >= 256 THEN [status |-> st, io |-> <<rdcall>>, rc |-> 0]
        ELSE LET rep == UpdateReport(st.report, ev.code, ev.value)
                 sent == itr # -1 /\ wr
             IN  IF rep = st.report
                 THEN [status |-> st, io |-> <<rdcall>>, rc |-> 0]
                 ELSE [status |-> [st EXCEPT !.report = rep],
                       io |-> <<rdcall, Call("write", itr, ReportBytes(rep), Result(sent))>>,
                       rc |-> IF sent THEN 0 ELSE -1]

(***************************************************************************)
(* input_event: read one event, update the report, send it.                *)
(*   rd: what read() returned ("err", "short" or "ok"); ev: the event;     *)
(*   wr: whether write() on a valid interrupt channel succeeds.            *)
(* Yields the new status, the calls made and the return value.             *)
(***************************************************************************)
input_event(st, inp, ctl, itr, rd, ev, wr) ==
    LET rdcall == Call("read", inp, <<>>, rd)
    IN  IF rd # "ok" THEN [status |-> st, io |-> <<rdcall>>, rc |-> -1]
        ELSE IF ev.type # EV_KEY THEN [status |-> st, io |-> <<rdcall>>, rc |-> 0]
        ELSE IF ev.code >= 256 THEN [status |-> st, io |-> <<rdcall>>, rc |-> 0]
        ELSE LET rep == UpdateReport(st.report, ev.code, ev.value)
                 sent == itr # -1 /\ wr
             IN  [status |-> [st EXCEPT !.report = rep],
                  io |-> <<rdcall, Call("write", itr, ReportBytes(rep), Result(sent))>>,
                  rc |-> IF sent THEN 0 ELSE -1]

\* A variant that gives up the channel on a frame it has no answer for.
btooth_command_fatal(fd, inp, size, buf) ==
    LET rdcall == Call("read", fd, <<>>, Result(size > 0))
    IN  IF size = -1 \/ size = 0 THEN [io |-> <<rdcall>>, rc |-> -1]
        ELSE LET trans == AndU8(buf[1], HIDP_HEADER_TRANS_MASK)
             IN  IF trans = HIDP_TRANS_SET_PROTOCOL
                 THEN [io |-> <<rdcall, Write(fd, <<OrU8(HIDP_TRANS_HANDSHAKE, HIDP_HSHK_SUCCESSFUL)>>)>>,
                       rc |-> 0]
                 ELSE IF trans = HIDP_TRANS_DATA /\ (size = 3 \/ size = 2)
                 THEN [io |-> <<rdcall>> \o set_leds(inp, buf[size]), rc |-> 0]
                 ELSE [io |-> <<rdcall, Write(fd, <<OrU8(HIDP_TRANS_HANDSHAKE, HIDP_HSHK_ERR_UNKNOWN)>>)>>,
                       rc |-> -1]

\* A variant whose Data case always breaks: a Data frame of another length
\* gets no answer.
btooth_command_break(fd, inp, size, buf) ==
    LET rdcall == Call("read", fd, <<>>, Result(size > 0))
    IN  IF size = -1 \/ size = 0 THEN [io |-> <<rdcall>>, rc |-> -1]
        ELSE LET trans == AndU8(buf[1], HIDP_HEADER_TRANS_MASK)
             IN  IF trans = HIDP_TRANS_SET_PROTOCOL
                 THEN [io |-> <<rdcall, Write(fd, <<OrU8(HIDP_TRANS_HANDSHAKE, HIDP_HSHK_SUCCESSFUL)>>)>>,
                       rc |-> 0]
                 ELSE IF trans = HIDP_TRANS_DATA
                 THEN [io |-> <<rdcall>> \o (IF size = 3 \/ size = 2 THEN set_leds(inp, buf[size]) ELSE <<>>),
                       rc |-> 0]
                 ELSE [io |-> <<rdcall, Write(fd, <<OrU8(HIDP_TRANS_HANDSHAKE, HIDP_HSHK_ERR_UNKNOWN)>>)>>,
                       rc |-> 0]

(***************************************************************************)
(* btooth_command: read one frame from fd and answer it.                   *)
(*   size: what read() returned; buf: the bytes read (size of them).       *)
(***************************************************************************)
btooth_command(fd, inp, size, buf) ==
    LET rdcall == Call("read", fd, <<>>, Result(size > 0))
    IN  IF size = -1 \/ size = 0 THEN [io |-> <<rdcall>>, rc |-> -1]
        ELSE LET trans == AndU8(buf[1], HIDP_HEADER_TRANS_MASK)
             IN  IF trans = HIDP_TRANS_SET_PROTOCOL
                 THEN [io |-> <<rdcall, Write(fd, <<OrU8(HIDP_TRANS_HANDSHAKE, HIDP_HSHK_SUCCESSFUL)>>)>>,
                       rc |-> 0]
                 ELSE IF trans = HIDP_TRANS_DATA /\ (size = 3 \/ size = 2)
                 THEN [io |-> <<rdcall>> \o set_leds(inp, buf[size]), rc |-> 0]
                 ELSE [io |-> <<rdcall, Write(fd, <<OrU8(HIDP_TRANS_HANDSHAKE, HIDP_HSHK_ERR_UNKNOWN)>>)>>,
                       rc |-> 0]

(***************************************************************************)
(* l2cap_accept (sk, addr): the peer's address is stored in *addr when a   *)
(* connection was accepted and addr is not NULL.                           *)
(***************************************************************************)
l2cap_accept_addr(addr, ok, peer) == IF ok THEN peer ELSE addr

(***************************************************************************)
(* Descriptors. A descriptor is named by the order in which it was opened, *)
(* so a number the kernel hands out again is still a different descriptor. *)
(***************************************************************************)
NewFd(cl) == Len(cl) + 1

Open(cl) == Append(cl, 0)

\* A variant in which close() was left out.
Close_forgotten(cl, fd) == cl

Close(cl, fd) == [cl EXCEPT ![fd] = @ + 1]

\* if (fd != -1) close (fd);
CloseIfOpen(cl, fd) == IF fd # -1 THEN Close(cl, fd) ELSE cl

\* A variant that forgets the channel an accept replaces.
ReplaceChannel_leak(cl, fd) == cl

\* Lines 387-388 and 403-404: close the channel the accept is about to replace.
ReplaceChannel(cl, fd) == CloseIfOpen(cl, fd)

NoEvent == [type |-> -1, code |-> -1, value |-> -1]

NoFrame == [size |-> -2, buf |-> <<>>]

(***************************************************************************)
(* session, lines 299-307: the keyboard state of a new session.            *)
(***************************************************************************)
InitialStatus ==
    [leds |-> 0,
     report |-> [type |-> OrU8(HIDP_TRANS_DATA, HIDP_DATA_RTYPE_INPUT),
                 report |-> 1,
                 mods |-> 0,
                 reserved |-> 0,
                 key |-> <<0, 0, 0, 0, 0, 0>>]]

\* The target addresses a session is entered with.
Targets == {BDADDR_ANY, "hostA"}

Init ==
    /\ pc = "start"
    /\ status = InitialStatus
    /\ input = -1
    /\ control = -1
    /\ intr = -1
    /\ scontrol = -1
    /\ sintr = -1
    /\ tgt \in Targets
    /\ target = tgt
    /\ revents = {}
    /\ closed = <<>>
    /\ ret = -1
    /\ io = <<>>
    /\ event = NoEvent
    /\ before = status.report
    /\ frame = NoFrame

(***************************************************************************)
(* input_open, and session's use of it (lines 231-270, 312-315).           *)
(***************************************************************************)
\* The call of input_open that fails, or "ok".
OpenOutcomes ==
    {"open", "EVIOCGVERSION", "version", "EVIOCGBIT", "features", "EVIOCGRAB",
     "EVIOCSREP", "ok"}

\* The descriptors after input_open: open() failed, or the device is open
\* (input_open closes nothing on its failure paths).
input_open(cl, outcome) == IF outcome = "open" THEN cl ELSE Open(cl)

\* A variant that returns 1 on every path.
ReturnValue_one(ran) == 1

\* What session returns: 0 from the setup paths, 1 after the loop.
ReturnValue(ran) == IF ran THEN 1 ELSE 0

InputOpen ==
    /\ before' = status.report
    /\ pc = "start"
    /\ \E outcome \in OpenOutcomes :
          /\ closed' = input_open(closed, outcome)
          /\ IF outcome = "ok"
             THEN /\ input' = NewFd(closed)
                  /\ io' = set_leds(NewFd(closed), status.leds)
                  /\ pc' = "opened"
                  /\ ret' = ret
             ELSE /\ input' = -1
                  /\ io' = <<Call(outcome, -1, <<>>, "fail")>>
                  /\ pc' = "returned"
                  /\ ret' = ReturnValue(FALSE)
    /\ UNCHANGED <<status, control, intr, scontrol, sintr, tgt, target, revents, event, frame>>

(***************************************************************************)
(* session, lines 317-337: the two listening sockets.                      *)
(***************************************************************************)
Listen ==
    /\ before' = status.report
    /\ pc = "opened"
    /\ \E okintr \in BOOLEAN, okcontrol \in BOOLEAN :
          IF ~okintr
          THEN /\ closed' = Close(closed, input)
               /\ io' = <<Call("listen", L2CAP_PSM_HIDP_INTR, <<>>, "fail"),
                          Call("close", input, <<>>, "unchecked")>>
               /\ pc' = "returned"
               /\ ret' = ReturnValue(FALSE)
               /\ UNCHANGED <<sintr, scontrol>>
          ELSE IF ~okcontrol
          THEN /\ closed' = Close(Close(Open(closed), input), NewFd(closed))
               /\ sintr' = NewFd(closed)
               /\ io' = <<Call("listen", L2CAP_PSM_HIDP_INTR, <<>>, "ok"),
                          Call("listen", L2CAP_PSM_HIDP_CTRL, <<>>, "fail"),
                          Call("close", input, <<>>, "unchecked"),
                          Call("close", NewFd(closed), <<>>, "unchecked")>>
               /\ pc' = "returned"
               /\ ret' = ReturnValue(FALSE)
               /\ UNCHANGED scontrol
          ELSE /\ closed' = Open(Open(closed))
               /\ sintr' = NewFd(closed)
               /\ scontrol' = NewFd(closed) + 1
               /\ io' = <<Call("listen", L2CAP_PSM_HIDP_INTR, <<>>, "ok"),
                          Call("listen", L2CAP_PSM_HIDP_CTRL, <<>>, "ok")>>
               /\ pc' = "loop"
               /\ ret' = ret
    /\ UNCHANGED <<status, input, control, intr, tgt, target, revents, event, frame>>

(***************************************************************************)
(* session, line 339: poll. pf[k].fd is input, control, intr, scontrol,    *)
(* sintr for k = 0..4; a negative fd is not watched.                       *)
(***************************************************************************)
Watched ==
    {k \in 0..4 : <<input, control, intr, scontrol, sintr>>[k + 1] # -1}

\* A variant that runs the handler of any source that is ready.
Next_pf_any(k) == k \in revents

\* pf[k].revents is set and no earlier pf[j].revents is: the k-th "if" runs next.
Next_pf(k) == k \in revents /\ \A j \in revents : j >= k

Poll(E) ==
    /\ before' = status.report
    /\ pc = "loop"
    /\ revents = {}
    /\ \/ \E ready \in (SUBSET (Watched \cap E.ready)) \ {{}} :
             /\ Cardinality(ready) <= E.together
             /\ revents' = ready
             /\ pc' = "loop"
             /\ io' = <<>>
       \/ /\ E.pollfails
          /\ revents' = {}
          /\ pc' = "exit"
          /\ io' = <<Call("poll", -1, <<>>, "fail")>>
    /\ event' = NoEvent
    /\ frame' = NoFrame
    /\ UNCHANGED <<status, input, control, intr, scontrol, sintr, tgt, target, closed, ret>>

(***************************************************************************)
(* session, lines 342-365: the event device is readable.                   *)
(***************************************************************************)
\* A variant without the test for BDADDR_ANY.
NooneToTalkTo_never(ctl, addr) == FALSE

\* "Noone to talk to?": no control channel and no target to connect to.
NooneToTalkTo(ctl, addr) == ctl = -1 /\ addr = BDADDR_ANY

PfInput(E) ==
    /\ before' = status.report
    /\ pc = "loop"
    /\ Next_pf(0)
    /\ revents' = revents \ {0}
    /\ frame' = NoFrame
    /\ \E rd \in E.reads, ev \in E.events, wr \in E.writes,
          okcontrol \in E.connects, okintr \in E.connects :
          LET need == control = -1
              cconn == Call("connect", L2CAP_PSM_HIDP_CTRL, <<>>, Result(okcontrol))
              iconn == Call("connect", L2CAP_PSM_HIDP_INTR, <<>>, Result(okintr))
          IN  IF NooneToTalkTo(control, tgt)
              THEN /\ pc' = "exit"
                   /\ io' = <<>>
                   /\ event' = NoEvent
                   /\ UNCHANGED <<status, control, intr, closed>>
              ELSE IF need /\ ~okcontrol
              THEN /\ pc' = "exit"
                   /\ io' = <<cconn>>
                   /\ control' = -1
                   /\ event' = NoEvent
                   /\ UNCHANGED <<status, intr, closed>>
              ELSE IF need /\ ~okintr
              THEN /\ pc' = "exit"
                   /\ io' = <<cconn, iconn>>
                   /\ control' = NewFd(closed)
                   /\ intr' = -1
                   /\ closed' = Open(closed)
                   /\ event' = NoEvent
                   /\ UNCHANGED status
              ELSE LET ctl == IF need THEN NewFd(closed) ELSE control
                       itr == IF need THEN NewFd(closed) + 1 ELSE intr
                       pre == IF need THEN <<cconn, iconn>> \o hello(ctl) ELSE <<>>
                       r == input_event(status, input, ctl, itr, rd, ev, wr)
                   IN  /\ control' = ctl
                       /\ intr' = itr
                       /\ closed' = IF need THEN Open(Open(closed)) ELSE closed
                       /\ status' = r.status
                       /\ io' = pre \o r.io
                       /\ event' = IF rd = "ok" THEN ev ELSE NoEvent
                       /\ pc' = IF r.rc # 0 THEN "exit" ELSE "loop"
    /\ UNCHANGED <<input, scontrol, sintr, tgt, target, ret>>

(***************************************************************************)
(* session, lines 366-381: a host channel is readable.                     *)
(***************************************************************************)
\* The bytes of a frame of the given size: header, filler, final byte.
FrameBytes(size, hdr, last) ==
    IF size <= 0 THEN <<>>
    ELSE [i \in 1..size |-> IF i = 1 THEN hdr ELSE IF i = size THEN last ELSE 1]

Command(E, k, fd) ==
    /\ before' = status.report
    /\ pc = "loop"
    /\ Next_pf(k)
    /\ revents' = revents \ {k}
    /\ event' = NoEvent
    /\ \E size \in E.sizes, hdr \in E.headers, last \in E.bytes :
          LET buf == FrameBytes(size, hdr, last)
              r == btooth_command(fd, input, size, buf)
          IN  /\ frame' = [size |-> size, buf |-> buf]
              /\ io' = r.io
              /\ pc' = IF r.rc # 0 THEN "exit" ELSE "loop"
    /\ UNCHANGED <<status, input, control, intr, scontrol, sintr, tgt, target, closed, ret>>

PfControl(E) == Command(E, 1, control)

PfIntr(E) == Command(E, 2, intr)

\* A variant that accepts an interrupt channel whatever the control channel.
ControlMissing_never(ctl) == FALSE

\* Lines 399-401: "Control connection needs to be connected first".
ControlMissing(ctl) == ctl = -1

\* A variant that closes the listening socket and keeps its descriptor.
Retired_kept(fd) == fd

\* Lines 393 and 410: the listening socket's variable after it was closed.
Retired(fd) == -1

(***************************************************************************)
(* session, lines 382-394: the listening control socket is readable.       *)
(***************************************************************************)
PfSControl(E) ==
    /\ before' = status.report
    /\ pc = "loop"
    /\ Next_pf(3)
    /\ revents' = revents \ {3}
    /\ event' = NoEvent
    /\ frame' = NoFrame
    /\ \E ok \in E.accepts, peer \in E.peers :
          LET cl1 == ReplaceChannel(closed, control)
              pre == (IF control # -1 THEN <<Call("close", control, <<>>, "unchecked")>> ELSE <<>>)
                     \o <<Call("accept", scontrol, <<>>, Result(ok))>>
          IN  /\ tgt' = l2cap_accept_addr(tgt, ok, peer)
              /\ IF ~ok
                 THEN /\ control' = -1
                      /\ closed' = cl1
                      /\ io' = pre
                      /\ pc' = "exit"
                      /\ UNCHANGED scontrol
                 ELSE /\ control' = NewFd(cl1)
                      /\ closed' = Close(Open(cl1), scontrol)
                      /\ io' = pre \o <<Call("close", scontrol, <<>>, "unchecked")>>
                      /\ scontrol' = Retired(scontrol)
                      /\ pc' = "loop"
    /\ UNCHANGED <<status, input, intr, sintr, target, ret>>

(***************************************************************************)
(* session, lines 395-411: the listening interrupt socket is readable.     *)
(***************************************************************************)
PfSIntr(E) ==
    /\ before' = status.report
    /\ pc = "loop"
    /\ Next_pf(4)
    /\ revents' = revents \ {4}
    /\ event' = NoEvent
    /\ frame' = NoFrame
    /\ \E ok \in E.accepts :
          LET cl1 == ReplaceChannel(closed, intr)
              pre == (IF intr # -1 THEN <<Call("close", intr, <<>>, "unchecked")>> ELSE <<>>)
                     \o <<Call("accept", sintr, <<>>, Result(ok))>>
          IN  IF ControlMissing(control)
              THEN /\ pc' = "exit"
                   /\ io' = <<>>
                   /\ UNCHANGED <<intr, sintr, closed>>
              ELSE IF ~ok
              THEN /\ intr' = -1
                   /\ closed' = cl1
                   /\ io' = pre
                   /\ pc' = "exit"
                   /\ UNCHANGED sintr
              ELSE /\ intr' = NewFd(cl1)
                   /\ closed' = Close(Open(cl1), sintr)
                   /\ io' = pre \o hello(control) \o <<Call("close", sintr, <<>>, "unchecked")>>
                   /\ sintr' = Retired(sintr)
                   /\ pc' = "loop"
    /\ UNCHANGED <<status, input, control, scontrol, tgt, target, ret>>

(***************************************************************************)
(* session, lines 414-424: leave the loop, close, return 1.                *)
(***************************************************************************)
SessionExit ==
    /\ before' = status.report
    /\ pc = "exit"
    /\ closed' = CloseIfOpen(CloseIfOpen(CloseIfOpen(CloseIfOpen(
                     Close(closed, input), scontrol), sintr), control), intr)
    /\ io' = <<Call("close", input, <<>>, "unchecked")>>
    /\ ret' = ReturnValue(TRUE)
    /\ pc' = "returned"
    /\ event' = NoEvent
    /\ frame' = NoFrame
    /\ UNCHANGED <<status, input, control, intr, scontrol, sintr, tgt, target, revents>>

(***************************************************************************)
(* What the environment does in a run of a whole session.                  *)
(***************************************************************************)
KeyEvents(codes, values) ==
    {[type |-> EV_KEY, code |-> c, value |-> v] : c \in codes, v \in values}

SynEvent == [type |-> EV_SYN, code |-> 0, value |-> 0]

SessionEnv ==
    [ready |-> 0..4,
     together |-> 5,
     pollfails |-> TRUE,
     reads |-> {"err", "short", "ok"},
     events |-> KeyEvents({2, 3, KEY_LEFTCTRL, 256}, 0..1) \cup {SynEvent},
     writes |-> BOOLEAN,
     connects |-> BOOLEAN,
     accepts |-> BOOLEAN,
     peers |-> {"hostA", "hostB"},
     sizes |-> -1..MaxFrame,
     headers |-> {HIDP_TRANS_SET_PROTOCOL, HIDP_TRANS_DATA + 2, 144},
     bytes |-> {0, 7}]

Next ==
    \/ InputOpen
    \/ Listen
    \/ Poll(SessionEnv)
    \/ PfInput(SessionEnv)
    \/ PfControl(SessionEnv)
    \/ PfIntr(SessionEnv)
    \/ PfSControl(SessionEnv)
    \/ PfSIntr(SessionEnv)
    \/ SessionExit

Spec == Init /\ [][Next]_vars

(***************************************************************************)
(* An established session waiting in poll: the listening control socket    *)
(* (descriptor 3) and then the listening interrupt socket (descriptor 2)   *)
(* were accepted from and closed, nothing else has happened, and poll has  *)
(* just reported the sources in `ready`.                                   *)
(***************************************************************************)
Established(ready) ==
    /\ pc = "loop"
    /\ status = InitialStatus
    /\ input = 1
    /\ sintr = -1
    /\ scontrol = -1
    /\ control = 4
    /\ intr = 5
    /\ tgt = "hostA"
    /\ target = BDADDR_ANY
    /\ revents = ready
    /\ closed = <<0, 1, 1, 0, 0>>
    /\ ret = -1
    /\ io = <<>>
    /\ event = NoEvent
    /\ before = status.report
    /\ frame = NoFrame

(***************************************************************************)
(* Rollover runs: an established session in which only the event device    *)
(* becomes readable and every report is sent, with NumKeys non-modifier    *)
(* keys (and KEY_RESERVED, which linux2hid maps to no usage).              *)
(***************************************************************************)
KeysEnv ==
    [ready |-> {0},
     together |-> 1,
     pollfails |-> FALSE,
     reads |-> {"ok"},
     events |-> KeyEvents(0..NumKeys, 0..1),
     writes |-> {TRUE},
     connects |-> {TRUE}]

InitKeys == Established({0})

NextKeys == Poll(KeysEnv) \/ PfInput(KeysEnv)

SpecKeys == InitKeys /\ [][NextKeys]_vars

(***************************************************************************)
(* Modifier runs: the same with all six modifier keys and NumModKeys       *)
(* other keys, and with writes of the report that fail; value 2 is the     *)
(* kernel's autorepeat.                                                    *)
(***************************************************************************)
ModifierKeys ==
    {KEY_LEFTCTRL, KEY_LEFTSHIFT, KEY_LEFTALT, KEY_RIGHTCTRL, KEY_RIGHTSHIFT, KEY_RIGHTALT}

ModsEnv ==
    [ready |-> {0},
     together |-> 1,
     pollfails |-> FALSE,
     reads |-> {"ok"},
     events |-> KeyEvents(1..NumModKeys \cup ModifierKeys, 0..2),
     writes |-> BOOLEAN,
     connects |-> {TRUE}]

NextMods == Poll(ModsEnv) \/ PfInput(ModsEnv)

SpecMods == InitKeys /\ [][NextMods]_vars

(***************************************************************************)
(* Command runs: an established session in which only the two host         *)
(* channels become readable, with every transaction type and every final   *)
(* byte.                                                                   *)
(***************************************************************************)
CmdEnv ==
    [ready |-> {1, 2},
     together |-> 1,
     pollfails |-> FALSE,
     sizes |-> -1..MaxCmdFrame,
     headers |-> {16 * t + p : t \in 0..15, p \in 0..2},
     bytes |-> 0..255]

InitCmd == \E ready \in {{1}, {2}} : Established(ready)

NextCmd == Poll(CmdEnv) \/ PfControl(CmdEnv) \/ PfIntr(CmdEnv)

SpecCmd == InitCmd /\ [][NextCmd]_vars

(***************************************************************************)
(* Properties of the key slots and the modifier mask.                      *)
(***************************************************************************)
Slots == 1..6

\* The codes held in the slots of key.
Held(key) == {key[i] : i \in Slots} \ {0}

\* No empty slot precedes an occupied one.
LeftPacked(key) == \A i \in 1..5 : key[i] = 0 => key[i + 1] = 0

\* The last step read a key event of a key this keyboard has (code < 256).
KeyEventProcessed ==
    /\ event # NoEvent
    /\ event.type = EV_KEY
    /\ event.code < 256

\* ... of a key that is no modifier, whose usage code is c.
NonModifier(c) ==
    /\ KeyEventProcessed
    /\ event.code \notin ModifierKeys
    /\ c = linux2hid(event.code)

\* C1: after any sequence of non-modifier press/release events on the empty
\* buffer of a new session the six slots are left-packed (no empty slot i < 5
\* is followed by an occupied slot i + 1) and hold at most 6 distinct codes.
C1_LeftPacked ==
    /\ LeftPacked(status.report.key)
    /\ Cardinality(Held(status.report.key)) <= 6

\* The first key of a full buffer was released and the other five moved up.
C1_Witness ==
    /\ NonModifier(before.key[1])
    /\ event.value = 0
    /\ \A i \in Slots : before.key[i] # 0
    /\ status.report.key[5] # 0
    /\ status.report.key[6] = 0

\* C2: a press of a code c that is held in some slot leaves the six slots,
\* content and order, as they were.
C2_RepressIsNoop ==
    \A c \in Held(before.key) :
        (NonModifier(c) /\ event.value # 0) => status.report.key = before.key

\* The key in the second of four held slots was pressed again.
C2_Witness ==
    /\ NonModifier(before.key[2])
    /\ event.value # 0
    /\ before.key[2] # 0
    /\ before.key[4] # 0
    /\ status.report.key = before.key

\* The slots after the key of slot j has been taken out: the slots before j
\* as they were, the later ones one slot forward, the last one empty.
Compacted(key, j) ==
    [i \in Slots |-> IF i < j THEN key[i] ELSE IF i < 6 THEN key[i + 1] ELSE 0]

\* C3: a release of a code c held at slot j leaves slots 0..j-1 unchanged,
\* moves every later entry forward by one slot in the same order, empties the
\* last slot that was occupied, and removes c and no other held key.
C3_ReleaseCompacts ==
    \A j \in Slots :
        (NonModifier(before.key[j]) /\ before.key[j] # 0 /\ event.value = 0)
        => /\ status.report.key = Compacted(before.key, j)
           /\ Held(status.report.key) = Held(before.key) \ {before.key[j]}
           /\ status.report.key[Cardinality(Held(before.key))] = 0

\* The key in the third slot of a full buffer was released.
C3_Witness ==
    /\ NonModifier(before.key[3])
    /\ event.value = 0
    /\ \A i \in Slots : before.key[i] # 0
    /\ status.report.key[5] = before.key[6]

\* The last step was a press of a code that none of the six occupied slots held.
SeventhPress ==
    /\ KeyEventProcessed
    /\ event.code \notin ModifierKeys
    /\ event.value # 0
    /\ linux2hid(event.code) # 0
    /\ linux2hid(event.code) \notin Held(before.key)
    /\ Cardinality(Held(before.key)) = 6

\* C4: with six distinct codes held, a press of a seventh code leaves the six
\* slots and the modifier mask unchanged and is no error: the report is sent,
\* and the session stays in its loop when that write succeeds.
C4_SeventhPressDropped ==
    SeventhPress
    => /\ status.report = before
       /\ Len(io) = 2
       /\ io[2].op = "write"
       /\ io[2].fd = intr
       /\ io[2].data = ReportBytes(before)
       /\ io[2].res = "ok" => pc = "loop"

\* A seventh key was pressed, the report was sent and the session goes on.
C4_Witness ==
    /\ SeventhPress
    /\ io[2].res = "ok"
    /\ pc = "loop"

\* Each modifier key with the bit of the modifier mask that is its own.
ModifierBit ==
    [k \in ModifierKeys |->
        CASE k = KEY_LEFTCTRL -> HIDP_LEFTCTRL
          [] k = KEY_LEFTSHIFT -> HIDP_LEFTSHIFT
          [] k = KEY_LEFTALT -> HIDP_LEFTALT
          [] k = KEY_RIGHTCTRL -> HIDP_RIGHTCTRL
          [] k = KEY_RIGHTSHIFT -> HIDP_RIGHTSHIFT
          [] k = KEY_RIGHTALT -> HIDP_RIGHTALT]

\* C5: a press of a modifier key sets that key's bit of the modifier mask and
\* a release clears it; every other bit and the six slots stay as they were.
C5_ModifierBit ==
    (KeyEventProcessed /\ event.code \in ModifierKeys)
    => /\ status.report.key = before.key
       /\ \E n \in 0..7 :
             /\ ModifierBit[event.code] = 2 ^ n
             /\ \A m \in ModifierKeys \ {event.code} : ModifierBit[m] # 2 ^ n
             /\ Bit(status.report.mods, n) = Truth(event.value)
             /\ \A k \in (0..7) \ {n} : Bit(status.report.mods, k) = Bit(before.mods, k)

\* Right Alt was released while Left Ctrl and a key were held.
C5_Witness ==
    /\ KeyEventProcessed
    /\ event.code = KEY_RIGHTALT
    /\ event.value = 0
    /\ before.mods = HIDP_LEFTCTRL + HIDP_RIGHTALT
    /\ status.report.mods = HIDP_LEFTCTRL
    /\ status.report.key[1] # 0

(***************************************************************************)
(* Properties of btooth_command.                                           *)
(***************************************************************************)
\* The calls of io that are writes to descriptor fd.
WritesTo(fd) == SelectSeq(io, LAMBDA c : c.op = "write" /\ c.fd = fd)

\* The last step read a frame of at least one byte from a host channel.
FrameRead ==
    /\ frame # NoFrame
    /\ frame.size > 0

\* The transaction type of the frame: the high nibble of its header byte.
TransactionType == (frame.buf[1] \div 16) * 16

LedFrame == TransactionType = HIDP_TRANS_DATA /\ frame.size \in {2, 3}

\* The bytes btooth_command is to answer the frame with, one sequence a write.
ExpectedReply ==
    IF TransactionType = HIDP_TRANS_SET_PROTOCOL
    THEN << <<HIDP_TRANS_HANDSHAKE + HIDP_HSHK_SUCCESSFUL>> >>
    ELSE IF LedFrame THEN << >>
    ELSE << <<HIDP_TRANS_HANDSHAKE + HIDP_HSHK_ERR_UNKNOWN>> >>

\* C6: for a frame read from the control or the interrupt channel the writes
\* to that channel are one byte Handshake|Successful for Set-Protocol, nothing
\* for Data of length 2 or 3, one byte Handshake|Err-Unknown otherwise, and
\* the other channel is not written to.
C6_Reply ==
    FrameRead
    => LET channel == io[1].fd
           replies == WritesTo(channel)
       IN  /\ io[1].op = "read"
           /\ channel \in {control, intr}
           /\ [k \in 1..Len(replies) |-> replies[k].data] = ExpectedReply
           /\ \A k \in 1..Len(io) : io[k].op = "write" => io[k].fd \in {channel, input}

\* A Data frame of four bytes on the interrupt channel was answered Err-Unknown.
C6_Witness ==
    /\ FrameRead
    /\ frame.size = 4
    /\ frame.buf[1] = HIDP_TRANS_DATA + 2
    /\ io[1].fd = intr
    /\ Len(io) = 2
    /\ io[2] = Call("write", intr, <<HIDP_HSHK_ERR_UNKNOWN>>, "unchecked")

\* The LEDs in the order they are to be written, each with its bit number.
LedOrder == <<LED_NUML, LED_CAPSL, LED_SCROLLL, LED_COMPOSE, LED_KANA>>

\* C7: a Data frame of length 2 or 3 with final byte b causes exactly five
\* LED writes to the input device, Num, Caps, Scroll, Compose, Kana in that
\* order, each with the value of its bit of b, whatever was written before.
C7_LedFanOut ==
    (FrameRead /\ LedFrame)
    => LET b == frame.buf[frame.size]
       IN  WritesTo(input) =
               [k \in 1..5 |->
                   Call("write", input, <<EV_LED, LedOrder[k], Bit(b, k - 1)>>, "unchecked")]

\* The frame a2 01 07 was read: Num, Caps and Scroll on, Compose and Kana off.
C7_Witness ==
    /\ FrameRead
    /\ frame.buf = <<162, 1, 7>>
    /\ [k \in 1..Len(WritesTo(input)) |-> WritesTo(input)[k].data[3]] = <<1, 1, 1, 0, 0>>

(***************************************************************************)
(* Properties of the session.                                              *)
(***************************************************************************)
\* C8: in a session entered with the target "any" no step calls
\* l2cap_connect, and the step that handles a readable event device while no
\* control channel is connected leaves the loop without a connect, a read of
\* the event or a write of a report.
C8_AcceptOnly ==
    [][target = BDADDR_ANY
       => /\ \A k \in 1..Len(io') : io'[k].op # "connect"
          /\ (pc = "loop" /\ Next_pf(0) /\ control = -1)
             => (pc' = "exit" /\ io' = <<>> /\ status' = status
                 /\ control' = -1 /\ intr' = intr)]_vars

\* Accept-only, no link: the event device and both listening sockets were
\* ready, the first handler left the loop, the accepts never ran.
C8_Witness ==
    /\ target = BDADDR_ANY
    /\ pc = "exit"
    /\ control = -1
    /\ io = <<>>
    /\ revents = {3, 4}

\* C9: session returns 0 exactly from its setup (input_open failed, or a
\* listening socket could not be created) and 1 whenever it returns after the
\* loop was entered, whatever ended the loop.
C9_ReturnValue ==
    [][/\ pc' # "returned" => ret' = -1
       /\ (pc # "returned" /\ pc' = "returned")
          => \/ pc \in {"start", "opened"} /\ ret' = 0
             \/ pc = "exit" /\ ret' = 1]_vars

\* An accept-only session that never got a link has returned 1.
C9_Witness ==
    /\ pc = "returned"
    /\ ret = 1
    /\ target = BDADDR_ANY
    /\ control = -1
    /\ Len(closed) = 3

\* C10: when a session that passed setup returns, every descriptor it opened
\* has been closed exactly once, and none is ever closed twice.
C10_ClosedOnce ==
    /\ \A d \in 1..Len(closed) : closed[d] <= 1
    /\ (pc = "returned" /\ ret = 1) => \A d \in 1..Len(closed) : closed[d] = 1

\* A session that connected both channels and later accepted both again
\* (seven descriptors in all) has returned.
C10_Witness ==
    /\ pc = "returned"
    /\ ret = 1
    /\ Len(closed) = 7

\* C11: on every setup failure path (the device was opened and a later call
\* of input_open failed, or a listening socket could not be created) every
\* descriptor acquired on that path has been closed when session returns 0.
C11_SetupReleases ==
    (pc = "returned" /\ ret = 0) => \A d \in 1..Len(closed) : closed[d] = 1

\* The last step's calls hold a successful call op on descriptor (or PSM) fd.
Succeeded(calls, op, fd) ==
    \E k \in 1..Len(calls) : calls[k].op = op /\ calls[k].fd = fd /\ calls[k].res = "ok"

\* C12 as stated: while the session runs each role has exactly one of its
\* listening socket and its connected channel, on the accept path and on the
\* active-connect path, and a connected role is never listened for again.
C12_OnePerRole ==
    [][pc' = "loop"
       => /\ (control' = -1) # (scontrol' = -1)
          /\ (intr' = -1) # (sintr' = -1)
          /\ control # -1 => (control' # -1 /\ scontrol' = -1)
          /\ intr # -1 => (intr' # -1 /\ sintr' = -1)]_vars

\* C12 as amended: a listening socket is given up only by a successful accept
\* on it, which connects its role in the same step; once given up it is never
\* listened for again and the role's channel stays as accepted; a channel and
\* the listening socket of its role exist together only after an active
\* connect, which leaves both listening sockets open.
C12_AcceptRetires ==
    [][pc = "loop"
       => /\ scontrol = -1 => (scontrol' = -1 /\ control # -1 /\ control' = control)
          /\ sintr = -1 => (sintr' = -1 /\ intr # -1 /\ intr' = intr)
          /\ Succeeded(io', "accept", scontrol) => (scontrol' = -1 /\ control' # -1)
          /\ Succeeded(io', "accept", sintr) => (sintr' = -1 /\ intr' # -1)
          /\ scontrol' # scontrol => Succeeded(io', "accept", scontrol)
          /\ sintr' # sintr => Succeeded(io', "accept", sintr)
          /\ (control = -1 /\ control' # -1 /\ scontrol' # -1)
             => Succeeded(io', "connect", L2CAP_PSM_HIDP_CTRL)
          /\ (intr = -1 /\ intr' # -1 /\ sintr' # -1)
             => Succeeded(io', "connect", L2CAP_PSM_HIDP_INTR)
          /\ Succeeded(io', "connect", L2CAP_PSM_HIDP_CTRL)
             => (scontrol' = scontrol /\ sintr' = sintr /\ scontrol # -1 /\ sintr # -1)]_vars

\* Both channels were connected actively and both were then replaced by an
\* accept: both listening sockets are given up, the session goes on.
C12_Witness ==
    /\ pc = "loop"
    /\ scontrol = -1
    /\ sintr = -1
    /\ Len(closed) = 7

\* C13: a listening socket is accepted from at most once in a session. Accept
\* is only called on a listening socket that is open and watched; a successful
\* accept closes that socket and takes it out of the variables the wait set
\* is built from; a descriptor once closed stays closed, and no closed
\* descriptor is listened on, so no second accept on it can follow.
C13_AcceptOnce ==
    [][/\ \A k \in 1..Len(io') :
             io'[k].op = "accept"
             => LET fd == io'[k].fd
                IN  /\ fd # -1
                    /\ fd \in {scontrol, sintr}
                    /\ closed[fd] = 0
                    /\ io'[k].res = "ok"
                       => /\ closed'[fd] = 1
                          /\ fd \notin {scontrol', sintr'}
                          /\ (fd = scontrol => 3 \notin Watched')
                          /\ (fd = sintr => 4 \notin Watched')
       /\ \A fd \in 1..Len(closed) : closed'[fd] >= closed[fd]
       /\ \A fd \in {scontrol', sintr'} \ {-1} : pc' = "loop" => closed'[fd] = 0]_vars

\* The listening control socket has just been accepted from and is gone
\* while the session goes on.
C13_Witness ==
    /\ pc = "loop"
    /\ Succeeded(io, "accept", 3)
    /\ scontrol = -1
    /\ closed[3] = 1
    /\ 3 \notin Watched

\* C14: a frame that is neither Set-Protocol nor Data of length 2 or 3 (an
\* unrecognized transaction type, or Data of another length) never ends the
\* session: the loop goes on with the channel slots and the keyboard state
\* as they were; a read of zero or fewer bytes on the control or interrupt
\* channel always ends the session in that wakeup.
C14_FrameOutcome ==
    [][frame' # NoFrame
       => /\ (frame'.size > 0
              /\ (frame'.buf[1] \div 16) * 16 # HIDP_TRANS_SET_PROTOCOL
              /\ ~((frame'.buf[1] \div 16) * 16 = HIDP_TRANS_DATA /\ frame'.size \in {2, 3}))
             => /\ pc' = "loop"
                /\ UNCHANGED <<status, control, intr, scontrol, sintr, closed>>
          /\ frame'.size <= 0
             => /\ pc' = "exit"
                /\ io'[1].op = "read"
                /\ io'[1].fd \in {control, intr}]_vars

\* A Data frame of one byte was read from the control channel and the
\* session goes on.
C14_Witness ==
    /\ FrameRead
    /\ frame.size = 1
    /\ TransactionType = HIDP_TRANS_DATA
    /\ io[1].fd = control
    /\ pc = "loop"

\* C15: whenever the loop is running (and so every time it waits) the
\* interrupt channel is not connected unless the control channel is; and when
\* the listening interrupt socket's readiness is handled while the control
\* channel is not connected, the loop is left and nothing is accepted.
C15_ControlFirst ==
    [][/\ pc = "loop" => ~(control = -1 /\ intr # -1)
       /\ pc' = "loop" => ~(control' = -1 /\ intr' # -1)
       /\ (pc = "loop" /\ Next_pf(4) /\ control = -1)
          => /\ pc' = "exit"
             /\ \A k \in 1..Len(io') : io'[k].op # "accept"
             /\ UNCHANGED <<control, intr, scontrol, sintr, closed>>]_vars

\* The session has a target to connect to, and left the loop without any
\* call and without a control channel: the listening interrupt socket was
\* ready before any control channel existed.
C15_Witness ==
    /\ pc = "exit"
    /\ io = <<>>
    /\ tgt # BDADDR_ANY
    /\ control = -1
    /\ intr = -1
    /\ sintr # -1

\* The positions in calls of a write of one of the two greeting frames.
GreetingFrames(calls) ==
    {k \in 1..Len(calls) :
        calls[k].op = "write" /\ calls[k].data \in {<<161, 19, 3>>, <<161, 19, 2>>}}

\* C16: a step that establishes an interrupt channel (by connect or by
\* accept) writes a1 13 03 and then a1 13 02 to the control channel connected
\* at that time, after the call that established the channel, before any
\* write to the new interrupt channel, and within the handler that
\* established it; the two frames are written once, and a step that
\* establishes no interrupt channel writes neither frame.
C16_Greeting ==
    [][IF intr' # -1 /\ intr' # intr
       THEN \E k \in 1..(Len(io') - 1) :
               /\ control' # -1
               /\ io'[k] = Write(control', <<161, 19, 3>>)
               /\ io'[k + 1] = Write(control', <<161, 19, 2>>)
               /\ GreetingFrames(io') = {k, k + 1}
               /\ \E j \in 1..(k - 1) :
                     /\ io'[j].op \in {"connect", "accept"}
                     /\ io'[j].fd \in {L2CAP_PSM_HIDP_INTR, sintr}
                     /\ io'[j].res = "ok"
               /\ \A j \in 1..Len(io') :
                     (io'[j].op = "write" /\ io'[j].fd = intr') => j > k + 1
       ELSE GreetingFrames(io') = {}]_vars

\* Both channels were connected on a key event: the greeting went out on the
\* control channel before the report went out on the interrupt channel.
C16_Witness ==
    /\ Len(io) = 7
    /\ Succeeded(io, "connect", L2CAP_PSM_HIDP_INTR)
    /\ io[3] = Write(control, <<161, 19, 3>>)
    /\ io[4] = Write(control, <<161, 19, 2>>)
    /\ io[7].op = "write"
    /\ io[7].fd = intr
    /\ Len(io[7].data) = 10

\* The first of the sources that are ready and not handled yet.
Lowest(ready) == CHOOSE k \in ready : \A j \in ready : j >= k

\* C17: within a wakeup the ready sources are handled in the order input
\* device, control channel, interrupt channel, listening control socket,
\* listening interrupt socket: each step of the loop with sources pending
\* runs the handler of the first pending source and of no other, takes that
\* source off the pending ones and adds none, so each is handled at most
\* once; once a handler has left the loop only the cleanup runs, whatever
\* is still pending.
C17_HandlerOrder ==
    [][/\ (pc = "loop" /\ revents # {})
          => LET k == Lowest(revents)
                 accepts == {j \in 1..Len(io') : io'[j].op = "accept"}
                 reads == {j \in 1..Len(io') : io'[j].op = "read"}
             IN  /\ revents' = revents \ {k}
                 /\ k = 0 => /\ accepts = {}
                             /\ frame' = NoFrame
                             /\ \A j \in reads : io'[j].fd = input
                 /\ k = 1 => /\ accepts = {}
                             /\ frame' # NoFrame
                             /\ \A j \in reads : io'[j].fd = control
                 /\ k = 2 => /\ accepts = {}
                             /\ frame' # NoFrame
                             /\ \A j \in reads : io'[j].fd = intr
                 /\ k = 3 => /\ reads = {}
                             /\ accepts # {}
                             /\ \A j \in accepts : io'[j].fd = scontrol
                 /\ k = 4 => /\ reads = {}
                             /\ \A j \in accepts : io'[j].fd = sintr
                             /\ io' = <<>> \/ accepts # {}
       /\ pc = "exit"
          => /\ pc' = "returned"
             /\ revents' = revents
             /\ \A j \in 1..Len(io') : io'[j].op = "close"]_vars

\* The event device and the listening control socket were ready together in
\* a session without a target and without a channel: the input handler left
\* the loop and the accept, still pending, never ran.
C17_Witness ==
    /\ pc = "returned"
    /\ revents = {3}
    /\ target = BDADDR_ANY
    /\ tgt = BDADDR_ANY
    /\ control = -1
    /\ scontrol # -1
    /\ closed[scontrol] = 1

(***************************************************************************)
(* Transmission runs: an established session in which the keys 1..n are    *)
(* held, in the order they were pressed, for some n up to the six slots;   *)
(* only the event device becomes readable, and a write of the report may   *)
(* fail. The events are of two of the held keys, of a seventh key, of a     *)
(* modifier, of a code the keyboard does not have, and a non-key event.    *)
(***************************************************************************)
HeldFirst(n) == [i \in 1..Len(InitialStatus.report.key) |-> IF i <= n THEN linux2hid(i) ELSE 0]

SendEnv ==
    [ready |-> {0},
     together |-> 1,
     pollfails |-> FALSE,
     reads |-> {"ok"},
     events |-> KeyEvents({1, 2, NumKeys, KEY_LEFTCTRL, 256}, 0..1) \cup {SynEvent},
     writes |-> BOOLEAN,
     connects |-> {TRUE}]

InitSend ==
    /\ pc = "loop"
    /\ \E n \in 0..Len(InitialStatus.report.key) :
          status = [InitialStatus EXCEPT !.report.key = HeldFirst(n)]
    /\ input = 1
    /\ sintr = -1
    /\ scontrol = -1
    /\ control = 4
    /\ intr = 5
    /\ tgt = "hostA"
    /\ target = BDADDR_ANY
    /\ revents = {0}
    /\ closed = <<0, 1, 1, 0, 0>>
    /\ ret = -1
    /\ io = <<>>
    /\ event = NoEvent
    /\ before = status.report
    /\ frame = NoFrame

NextSend == Poll(SendEnv) \/ PfInput(SendEnv)

SpecSend == InitSend /\ [][NextSend]_vars

\* The one write of the last step to the interrupt channel carried the
\* current report, in size bytes, and the loop was left exactly if it failed.
SentOnce(size) ==
    LET sent == WritesTo(intr)
    IN  /\ Len(sent) = 1
        /\ sent[1].data = ReportBytes(status.report)
        /\ Len(sent[1].data) = size
        /\ \A k \in 1..Len(io) : io[k].op = "write" => io[k].fd = intr
        /\ pc = "exit" <=> sent[1].res = "fail"

\* C18 as stated: every processed input event (a key event with a code below
\* 256) leads to exactly one attempt to write the current report, 9 bytes, to
\* the interrupt channel, whether or not the event changed the report, and
\* the session is given up exactly if that write fails.
C18_NineBytes == KeyEventProcessed => SentOnce(9)

\* C18 as amended: the same with the report being the 10 bytes of struct
\* key_report (type, report id, modifiers, reserved, six keys).
C18_TenBytes == KeyEventProcessed => SentOnce(10)

\* A seventh key was pressed with six keys held: the report is as it was and
\* was written all the same, and the write failed.
C18_Witness ==
    /\ KeyEventProcessed
    /\ event.value = 1
    /\ event.code \notin ModifierKeys
    /\ \A i \in Slots : before.key[i] \notin {0, linux2hid(event.code)}
    /\ status.report = before
    /\ Len(WritesTo(intr)) = 1
    /\ WritesTo(intr)[1].res = "fail"
    /\ pc = "exit"

\* C19: with a control channel and no interrupt channel, handling a key event
\* with a code below 256 updates the report from the event, makes the one
\* write of that report to the missing interrupt channel, which fails, and
\* leaves the loop; no connect is made, whatever the target of the session.
C19_ControlOnly ==
    [][(/\ pc = "loop"
        /\ Next_pf(0)
        /\ control # -1
        /\ intr = -1
        /\ event' # NoEvent
        /\ event'.type = EV_KEY
        /\ event'.code < 256)
       => /\ status'.report = UpdateReport(status.report, event'.code, event'.value)
          /\ status'.leds = status.leds
          /\ io' = <<Call("read", input, <<>>, "ok"),
                     Call("write", -1, ReportBytes(status'.report), "fail")>>
          /\ pc' = "exit"
          /\ UNCHANGED <<control, intr, scontrol, sintr, closed>>]_vars

\* A session with a target was connected to on the control channel only; a
\* key was pressed, the report took it up, the write failed and the loop was
\* left.
C19_Witness ==
    /\ pc = "exit"
    /\ target # BDADDR_ANY
    /\ control # -1
    /\ intr = -1
    /\ scontrol = -1
    /\ KeyEventProcessed
    /\ event.value = 1
    /\ status.report # before
    /\ status.report.key[1] = linux2hid(event.code)
    /\ Len(io) = 2
    /\ io[2].op = "write"
    /\ io[2].fd = -1
    /\ io[2].res = "fail"

\* The reference model: the usage codes of the keys held, in press order.
HeldList(key) == SelectSeq(key, LAMBDA c : c # 0)

\* Append on the press of a key that is not in the list, remove on a release.
ListAfter(list, code, value) ==
    IF value # 0
    THEN IF \E k \in 1..Len(list) : list[k] = code THEN list ELSE Append(list, code)
    ELSE SelectSeq(list, LAMBDA c : c # code)

\* The list in the slots, padded with empty slots.
Padded(list) == [i \in Slots |-> IF i <= Len(list) THEN list[i] ELSE 0]

\* C20: the slots follow the list of held keys. The slots start empty, as the
\* list does; whenever the slots before a key event are the padded list of
\* the keys held and the list after the event has no more than six keys, the
\* slots after the event are the padded list after the event: a key still
\* held is neither lost nor moved past another, a released key is gone and
\* no code is in two slots. (Keys are those with a usage code; modifiers are
\* not kept in the slots.)
C20_FollowsList ==
    /\ (pc = "loop" /\ event = NoEvent /\ io = <<>> /\ before = status.report)
       => status.report.key = Padded(HeldList(status.report.key))
    /\ (/\ KeyEventProcessed
        /\ event.code \notin ModifierKeys
        /\ linux2hid(event.code) # 0
        /\ before.key = Padded(HeldList(before.key))
        /\ Len(ListAfter(HeldList(before.key), linux2hid(event.code), event.value)) <= 6)
       => /\ status.report.key
               = Padded(ListAfter(HeldList(before.key), linux2hid(event.code), event.value))
          /\ \A i, j \in Slots :
                (i # j /\ status.report.key[i] # 0) => status.report.key[i] # status.report.key[j]

\* The second of six held keys was released: the four behind it moved up in
\* their order and the last slot is empty.
C20_Witness ==
    /\ KeyEventProcessed
    /\ event.value = 0
    /\ Len(HeldList(before.key)) = 6
    /\ before.key[2] = linux2hid(event.code)
    /\ status.report.key = Padded(ListAfter(HeldList(before.key), before.key[2], 0))
    /\ status.report.key[2] = before.key[3]
    /\ status.report.key[5] = before.key[6]
    /\ status.report.key[6] = 0

====
